---------------------------- MODULE Spec2Model ----------------------------
(***************************************************************************)
(* Model of the gin middleware helpers of contrib_gin_middleware:          *)
(*   gcors    - CORS origin validation and header synthesis (applyCors)    *)
(*   logger   - access / error logging middleware constructors             *)
(*   ip_white - IP allowlist middleware                                    *)
(***************************************************************************)
EXTENDS Integers, Sequences, FiniteSets, TLC

VARIABLES
    corsConfig, \* the Config handed to newCors
    gCors,      \* the *gCors policy built by newCors
    slices,     \* heap of []string header values: address -> sequence of strings
    ctx,        \* per request goroutine: the gin.Context and the position in applyCors
    wc,         \* validateWildcardOrigin: inputs and result
    cfg,        \* logger: the package-level variable cfg
    handlers,   \* logger: the handler closures returned so far
    ipw         \* ip_white: middleware instance, request and outcome

vars == <<corsConfig, gCors, slices, ctx, wc, cfg, handlers, ipw>>

(***************************************************************************)
(* Bounds                                                                  *)
(***************************************************************************)
NumThreads == 2     \* concurrent request goroutines
MaxPatterns == 2    \* length of wildcardOrigins in the wildcard specification
MaxCalls == 2       \* logger constructor calls
MaxOpts == 2        \* options per logger constructor call
MaxList == 2        \* length of the IP allowlist

(***************************************************************************)
(* strings                                                                 *)
(***************************************************************************)
HasPrefix(s, p) == Len(s) >= Len(p) /\ SubSeq(s, 1, Len(p)) = p

HasSuffix(s, p) == Len(s) >= Len(p) /\ SubSeq(s, Len(s) - Len(p) + 1, Len(s)) = p

\* index (1-based) of the first occurrence of the one-character string ch, 0 if none
RECURSIVE IndexFrom(_, _, _)
IndexFrom(s, ch, i) ==
    IF i > Len(s) THEN 0
    ELSE IF SubSeq(s, i, i) = ch THEN i
    ELSE IndexFrom(s, ch, i + 1)

IndexByte(s, ch) == IndexFrom(s, ch, 1)

Contains(s, ch) == IndexByte(s, ch) # 0

RECURSIVE Count(_, _)
Count(s, ch) ==
    IF Len(s) = 0 THEN 0
    ELSE (IF Head(s) = ch THEN 1 ELSE 0) + Count(Tail(s), ch)

(***************************************************************************)
(* gcors: header names and status codes                                    *)
(***************************************************************************)
ACAO == "Access-Control-Allow-Origin"
ACAM == "Access-Control-Allow-Methods"
ACAH == "Access-Control-Allow-Headers"
ACMA == "Access-Control-Max-Age"
ACAC == "Access-Control-Allow-Credentials"
ACEH == "Access-Control-Expose-Headers"

HeaderKeys == {ACAO, ACAM, ACAH, ACMA, ACAC, ACEH}

StatusForbidden == 403
StatusNoContent == 204

\* the statuses a downstream handler may answer with
HandlerStatuses == {200, 404}

\* a header map (http.Header) maps every key to the address of its []string, 0 = no entry
NoHeader == [k \in HeaderKeys |-> 0]


KeySeq == <<ACAO, ACAM, ACAH, ACMA, ACAC, ACEH>>

KeyIndex(k) == CHOOSE i \in 1..Len(KeySeq) : KeySeq[i] = k

\* heap addresses: the entries of normalHeaders, of preflightHeaders, and one
\* fresh []string per request goroutine for http.Header.Set
NormalAddr(k) == KeyIndex(k)
PreflightAddr(k) == Len(KeySeq) + KeyIndex(k)
FreshAddr(t) == 2 * Len(KeySeq) + t
Addrs == 1..(2 * Len(KeySeq) + NumThreads)

(***************************************************************************)
(* gcors: Config and its helpers                                           *)
(***************************************************************************)
\* a predicate hook: nil, or a function value given by the arguments it accepts
NilFunc == [isNil |-> TRUE, accept |-> {}]

Methods == {"GET", "OPTIONS"}

OriginFuncs == {NilFunc, [isNil |-> FALSE, accept |-> {"https://special.test"}]}

ContextFuncs ==
    {NilFunc,
     [isNil |-> FALSE,
      accept |-> {<<"GET", "https://evil.test">>,
                  <<"GET", "https://special.test">>,
                  <<"OPTIONS", "https://special.test">>}]}

AllowOriginsChoices ==
    {<<>>,
     <<"https://example.com">>,
     <<"https://*.example.com">>,
     <<"HTTPS://Example.com/", "https://*.example.com">>,
     <<"*">>,
     <<"https://a*b*.com">>}

HeaderSettings ==
    {[AllowMethods |-> <<>>, AllowHeaders |-> <<>>, MaxAge |-> 0,
      AllowCredentials |-> FALSE, ExposeHeaders |-> <<>>],
     [AllowMethods |-> <<"GET", "POST">>, AllowHeaders |-> <<"Content-Type">>, MaxAge |-> 3600,
      AllowCredentials |-> FALSE, ExposeHeaders |-> <<>>],
     [AllowMethods |-> <<>>, AllowHeaders |-> <<>>, MaxAge |-> 0,
      AllowCredentials |-> TRUE, ExposeHeaders |-> <<"X-Total">>],
     [AllowMethods |-> <<"GET", "POST">>, AllowHeaders |-> <<"Content-Type">>, MaxAge |-> 3600,
      AllowCredentials |-> TRUE, ExposeHeaders |-> <<"X-Total", "X-Page">>]}

Configs ==
    {[AllowAllOrigins |-> all, AllowOrigins |-> ao,
      AllowOriginFunc |-> f, AllowOriginWithContextFunc |-> g,
      AllowMethods |-> h.AllowMethods, AllowHeaders |-> h.AllowHeaders,
      MaxAge |-> h.MaxAge, AllowCredentials |-> h.AllowCredentials,
      ExposeHeaders |-> h.ExposeHeaders, OptionsResponseStatusCode |-> code] :
        all \in BOOLEAN, ao \in AllowOriginsChoices, f \in OriginFuncs,
        g \in ContextFuncs, h \in HeaderSettings, code \in {0, 200}}

Upper == <<"A", "B", "C", "D", "E", "F", "G", "H", "I", "J", "K", "L", "M",
           "N", "O", "P", "Q", "R", "S", "T", "U", "V", "W", "X", "Y", "Z">>
Lower == <<"a", "b", "c", "d", "e", "f", "g", "h", "i", "j", "k", "l", "m",
           "n", "o", "p", "q", "r", "s", "t", "u", "v", "w", "x", "y", "z">>

RECURSIVE ToLower(_)
ToLower(s) ==
    IF Len(s) = 0 THEN ""
    ELSE LET ch == Head(s)
             lc == IF \E i \in 1..26 : Upper[i] = ch
                   THEN Lower[CHOOSE i \in 1..26 : Upper[i] = ch]
                   ELSE ch
         IN lc \o ToLower(Tail(s))

RECURSIVE Join(_, _)
Join(elems, sep) ==
    IF Len(elems) = 0 THEN ""
    ELSE IF Len(elems) = 1 THEN elems[1]
    ELSE elems[1] \o sep \o Join(Tail(elems), sep)

Digits == <<"0", "1", "2", "3", "4", "5", "6", "7", "8", "9">>

RECURSIVE Itoa(_)
Itoa(n) == IF n < 10 THEN Digits[n + 1] ELSE Itoa(n \div 10) \o Digits[(n % 10) + 1]

\* Config.Validate: nil error iff every origin entry has a scheme and at most one "*"
Validate(config) ==
    \A i \in 1..Len(config.AllowOrigins) :
        LET o == config.AllowOrigins[i]
        IN o = "*" \/ (Count(o, "*") <= 1 /\ \E j \in 1..Len(o) : HasPrefix(SubSeq(o, j, Len(o)), "://"))

\* normalize: lower-case, strip the trailing slash, drop duplicates
RECURSIVE normalize(_)
normalize(values) ==
    IF Len(values) = 0 THEN <<>>
    ELSE LET rest == normalize(SubSeq(values, 1, Len(values) - 1))
             v0 == ToLower(values[Len(values)])
             v == IF HasSuffix(v0, "/") THEN SubSeq(v0, 1, Len(v0) - 1) ELSE v0
         IN IF \E i \in 1..Len(rest) : rest[i] = v THEN rest ELSE Append(rest, v)

\* Config.parseWildcardRules: the (prefix, suffix) pairs of the entries holding a "*"
RECURSIVE parseWildcardRules(_)
parseWildcardRules(origins) ==
    IF Len(origins) = 0 THEN <<>>
    ELSE LET o == Head(origins)
             i == IndexByte(o, "*")
             rest == parseWildcardRules(Tail(origins))
         IN IF i = 0 \/ o = "*" THEN rest
            ELSE IF i = 1 THEN <<<<"*", SubSeq(o, 2, Len(o))>>>> \o rest
            ELSE IF i = Len(o) THEN <<<<SubSeq(o, 1, Len(o) - 1), "*">>>> \o rest
            ELSE <<<<SubSeq(o, 1, i - 1), SubSeq(o, i + 1, Len(o))>>>> \o rest

\* header value lists by key, <<>> = the key is not in the set
generateNormalHeaders(config) ==
    [k \in HeaderKeys |->
        IF k = ACAC /\ config.AllowCredentials THEN <<"true">>
        ELSE IF k = ACEH /\ Len(config.ExposeHeaders) > 0
             THEN <<Join(config.ExposeHeaders, ",")>>
        ELSE <<>>]

generatePreflightHeaders(config) ==
    [k \in HeaderKeys |->
        IF k = ACAC /\ config.AllowCredentials THEN <<"true">>
        ELSE IF k = ACAM /\ Len(config.AllowMethods) > 0
             THEN <<Join(config.AllowMethods, ",")>>
        ELSE IF k = ACAH /\ Len(config.AllowHeaders) > 0
             THEN <<Join(config.AllowHeaders, ",")>>
        ELSE IF k = ACMA /\ config.MaxAge > 0 THEN <<Itoa(config.MaxAge)>>
        ELSE <<>>]

(***************************************************************************)
(* gcors: newCors                                                          *)
(***************************************************************************)
newCors(config) ==
    LET all == config.AllowAllOrigins
               \/ \E i \in 1..Len(config.AllowOrigins) : config.AllowOrigins[i] = "*"
        code == IF config.OptionsResponseStatusCode = 0
                THEN StatusNoContent
                ELSE config.OptionsResponseStatusCode
        nh == generateNormalHeaders(config)
        ph == generatePreflightHeaders(config)
    IN [allowOriginFunc |-> config.AllowOriginFunc,
        allowOriginWithContextFunc |-> config.AllowOriginWithContextFunc,
        allowAllOrigins |-> all,
        allowCredentials |-> config.AllowCredentials,
        allowOrigins |-> normalize(config.AllowOrigins),
        normalHeaders |-> [k \in HeaderKeys |-> IF nh[k] = <<>> THEN 0 ELSE NormalAddr(k)],
        preflightHeaders |-> [k \in HeaderKeys |-> IF ph[k] = <<>> THEN 0 ELSE PreflightAddr(k)],
        wildcardOrigins |-> parseWildcardRules(config.AllowOrigins),
        optionsResponseStatusCode |-> code]

\* the []string values the two header maps of newCors(config) point to
newCorsSlices(config) ==
    LET nh == generateNormalHeaders(config)
        ph == generatePreflightHeaders(config)
    IN [a \in Addrs |->
          IF \E k \in HeaderKeys : a = NormalAddr(k)
          THEN nh[CHOOSE k \in HeaderKeys : a = NormalAddr(k)]
          ELSE IF \E k \in HeaderKeys : a = PreflightAddr(k)
          THEN ph[CHOOSE k \in HeaderKeys : a = PreflightAddr(k)]
          ELSE <<>>]

(***************************************************************************)
(* gcors: requests and the gin.Context                                     *)
(***************************************************************************)
Hosts == {"example.com", "other.test"}

\* "" is a request without an Origin header (Header.Get returns "")
Origins ==
    {"", "http://example.com", "https://example.com", "https://api.example.com",
     "https://special.test", "https://evil.test", "null"}

Requests == [origin : Origins, host : Hosts, method : Methods]

NoRequest == [origin |-> "", host |-> "", method |-> ""]

NoneSent == [k \in HeaderKeys |-> <<>>]

\* pc: idle -> validate -> branch -> echo -> exit -> returned -> done
NewContext ==
    [pc |-> "idle",
     req |-> NoRequest,
     header |-> NoHeader,      \* c.Writer.Header()
     status |-> 0,             \* c.Writer.Status(), 0 = not set by any handler
     written |-> FALSE,        \* c.Writer.Written()
     sent |-> NoneSent,        \* the header values on the wire once written
     aborted |-> FALSE,        \* c.IsAborted()
     deferred |-> 0,           \* the argument of the pending deferred AbortWithStatus, 0 = none
     validated |-> FALSE,      \* isOriginValid has returned
     valid |-> FALSE,          \* its result
     calls |-> <<>>,           \* validation functions and predicates invoked, in order
     log |-> <<>>,             \* writes to the response, in order
     handlerRan |-> FALSE]     \* the downstream handler was invoked

\* the state an operation of one goroutine can touch
Machine(t) == [c |-> ctx[t], slices |-> slices, gCors |-> gCors]

\* the values of every key of a header map
Resolve(header, heap) == [k \in HeaderKeys |-> IF header[k] = 0 THEN <<>> ELSE heap[header[k]]]

\* gin: c.Status(code)
Status_only(m, code) ==
    [m EXCEPT !.c.status = code,
              !.c.log = Append(@, <<"Status", Itoa(code)>>)]

\* gin: c.AbortWithStatus(code) = c.Status(code); c.Writer.WriteHeaderNow(); c.Abort()
AbortWithStatus(m, code) ==
    [m EXCEPT !.c.status = code,
              !.c.written = TRUE,
              !.c.sent = IF m.c.written THEN @ ELSE Resolve(m.c.header, m.slices),
              !.c.aborted = TRUE,
              !.c.log = Append(@, <<"AbortWithStatus", Itoa(code)>>)]

\* a write of the header into the policy's own map instead of the response
Header_intoPolicy(m, t, key, value) ==
    [m EXCEPT !.slices[FreshAddr(t)] = <<value>>,
              !.gCors.normalHeaders[key] = FreshAddr(t),
              !.c.log = Append(@, <<"Header", key>>)]

\* gin: c.Header(key, value): Del for the empty value, else http.Header.Set,
\* which stores a fresh one-element []string under the key
Header(m, t, key, value) ==
    IF value = ""
    THEN [m EXCEPT !.c.header[key] = 0,
                   !.c.log = Append(@, <<"Header", key>>)]
    ELSE [m EXCEPT !.slices[FreshAddr(t)] = <<value>>,
                   !.c.header[key] = FreshAddr(t),
                   !.c.log = Append(@, <<"Header", key>>)]

(***************************************************************************)
(* gcors: origin validation                                                *)
(***************************************************************************)
\* the third test without its suffix half
validateWildcardOrigin_prefixOnly(wildcardOrigins, origin) ==
    \E i \in 1..Len(wildcardOrigins) :
        LET w == wildcardOrigins[i]
        IN \/ (w[1] = "*" /\ HasSuffix(origin, w[2]))
           \/ (w[2] = "*" /\ HasPrefix(origin, w[1]))
           \/ HasPrefix(origin, w[1])

RECURSIVE validateWildcardOrigin(_, _)
validateWildcardOrigin(wildcardOrigins, origin) ==
    IF Len(wildcardOrigins) = 0 THEN FALSE
    ELSE LET w == Head(wildcardOrigins)
         IN IF w[1] = "*" /\ HasSuffix(origin, w[2]) THEN TRUE
            ELSE IF w[2] = "*" /\ HasPrefix(origin, w[1]) THEN TRUE
            ELSE IF HasPrefix(origin, w[1]) /\ HasSuffix(origin, w[2]) THEN TRUE
            ELSE validateWildcardOrigin(Tail(wildcardOrigins), origin)

\* validateOrigin with the predicate consulted before the exact and wildcard tests
validateOrigin_funcFirst(g, origin) ==
    IF g.allowAllOrigins THEN [valid |-> TRUE, calls |-> <<"validateOrigin">>]
    ELSE IF ~g.allowOriginFunc.isNil
    THEN [valid |-> origin \in g.allowOriginFunc.accept,
          calls |-> <<"validateOrigin", "allowOriginFunc">>]
    ELSE IF \E i \in 1..Len(g.allowOrigins) : g.allowOrigins[i] = origin
    THEN [valid |-> TRUE, calls |-> <<"validateOrigin">>]
    ELSE [valid |-> Len(g.wildcardOrigins) > 0
                    /\ validateWildcardOrigin(g.wildcardOrigins, origin),
          calls |-> <<"validateOrigin">>]

validateOrigin(g, origin) ==
    IF g.allowAllOrigins THEN [valid |-> TRUE, calls |-> <<"validateOrigin">>]
    ELSE IF \E i \in 1..Len(g.allowOrigins) : g.allowOrigins[i] = origin
    THEN [valid |-> TRUE, calls |-> <<"validateOrigin">>]
    ELSE IF Len(g.wildcardOrigins) > 0 /\ validateWildcardOrigin(g.wildcardOrigins, origin)
    THEN [valid |-> TRUE, calls |-> <<"validateOrigin">>]
    ELSE IF ~g.allowOriginFunc.isNil
    THEN [valid |-> origin \in g.allowOriginFunc.accept,
          calls |-> <<"validateOrigin", "allowOriginFunc">>]
    ELSE [valid |-> FALSE, calls |-> <<"validateOrigin">>]

isOriginValid(g, c, origin) ==
    LET r == validateOrigin(g, origin)
    IN IF ~r.valid /\ ~g.allowOriginWithContextFunc.isNil
       THEN [valid |-> <<c.req.method, origin>> \in g.allowOriginWithContextFunc.accept,
             calls |-> Append(r.calls, "allowOriginWithContextFunc")]
       ELSE r

(***************************************************************************)
(* gcors: header synthesis                                                 *)
(***************************************************************************)
\* copies the other precomputed set
handlePreflight_normalSet(m) ==
    [m EXCEPT !.c.header = [k \in HeaderKeys |->
                                IF m.gCors.normalHeaders[k] # 0
                                THEN m.gCors.normalHeaders[k] ELSE @[k]],
              !.c.log = Append(@, <<"handlePreflight", "">>)]

\* header[key] = value for every entry: the response map shares the policy's []string
handlePreflight(m) ==
    [m EXCEPT !.c.header = [k \in HeaderKeys |->
                                IF m.gCors.preflightHeaders[k] # 0
                                THEN m.gCors.preflightHeaders[k] ELSE @[k]],
              !.c.log = Append(@, <<"handlePreflight", "">>)]

handleNormal_preflightSet(m) ==
    [m EXCEPT !.c.header = [k \in HeaderKeys |->
                                IF m.gCors.preflightHeaders[k] # 0
                                THEN m.gCors.preflightHeaders[k] ELSE @[k]],
              !.c.log = Append(@, <<"handleNormal", "">>)]

handleNormal(m) ==
    [m EXCEPT !.c.header = [k \in HeaderKeys |->
                                IF m.gCors.normalHeaders[k] # 0
                                THEN m.gCors.normalHeaders[k] ELSE @[k]],
              !.c.log = Append(@, <<"handleNormal", "">>)]

(***************************************************************************)
(* gcors: applyCors, one action per stretch between reads of the policy    *)
(***************************************************************************)
Threads == 1..NumThreads

sameOrigin_httpOnly(origin, host) == origin = "http://" \o host

sameOrigin(origin, host) == origin = "http://" \o host \/ origin = "https://" \o host

echoOrigin_always(m, t) == Header(m, t, ACAO, m.c.req.origin)

echoOrigin(m, t) ==
    IF ~m.gCors.allowAllOrigins THEN Header(m, t, ACAO, m.c.req.origin) ELSE m

\* the goroutine t moves to pc with the machine state m
Step(t, m, pc) ==
    /\ ctx' = [ctx EXCEPT ![t] = [m.c EXCEPT !.pc = pc]]
    /\ slices' = m.slices
    /\ gCors' = m.gCors
    /\ UNCHANGED <<corsConfig, wc, cfg, handlers, ipw>>

\* a request arrives; applyCors reads Origin and Host and classifies
Begin(t, req) ==
    /\ ctx[t].pc = "idle"
    /\ LET m == [Machine(t) EXCEPT !.c.req = req]
       IN IF Len(req.origin) = 0 THEN Step(t, m, "returned")
          ELSE IF sameOrigin(req.origin, req.host) THEN Step(t, m, "returned")
          ELSE Step(t, m, "validate")

CheckOrigin(t) ==
    /\ ctx[t].pc = "validate"
    /\ LET r == isOriginValid(gCors, ctx[t], ctx[t].req.origin)
           m == [Machine(t) EXCEPT !.c.validated = TRUE,
                                   !.c.valid = r.valid,
                                   !.c.calls = r.calls]
       IN IF ~r.valid
          THEN Step(t, AbortWithStatus(m, StatusForbidden), "returned")
          ELSE Step(t, m, "branch")

Branch(t) ==
    /\ ctx[t].pc = "branch"
    /\ IF ctx[t].req.method = "OPTIONS"
       THEN Step(t, [handlePreflight(Machine(t))
                        EXCEPT !.c.deferred = gCors.optionsResponseStatusCode], "echo")
       ELSE Step(t, handleNormal(Machine(t)), "echo")

EchoOrigin(t) ==
    /\ ctx[t].pc = "echo"
    /\ Step(t, echoOrigin(Machine(t), t), "exit")

\* applyCors returns: the deferred call runs
Exit(t) ==
    /\ ctx[t].pc = "exit"
    /\ IF ctx[t].deferred # 0
       THEN Step(t, AbortWithStatus([Machine(t) EXCEPT !.c.deferred = 0],
                                    ctx[t].deferred), "returned")
       ELSE Step(t, Machine(t), "returned")

\* gin's handler chain after applyCors: the next handler runs unless aborted
Downstream(t) ==
    /\ ctx[t].pc = "returned"
    /\ IF ctx[t].aborted
       THEN Step(t, Machine(t), "done")
       ELSE \E code \in HandlerStatuses :
                Step(t, [Machine(t) EXCEPT !.c.handlerRan = TRUE,
                                           !.c.status = code,
                                           !.c.written = TRUE,
                                           !.c.sent = Resolve(ctx[t].header, slices)], "done")

(***************************************************************************)
(* gcors: specifications                                                   *)
(***************************************************************************)
IdleWildcard == [pc |-> "off", wildcardOrigins |-> <<>>, origin |-> "", result |-> FALSE]
IdleIPWhite == [pc |-> "off", WhiteList |-> <<>>, ip |-> "", white |-> FALSE,
                aborted |-> FALSE, status |-> 0, handlerRan |-> FALSE]
\* logger: the zero config, and the nil *config
ZeroConfig ==
    [isNil |-> FALSE, formatter |-> "nil", logger |-> "nil",
     excludeRegexStatus |-> <<>>, excludeRegexEndpoint |-> <<>>, excludeRegexMethod |-> <<>>,
     endpointLabelMappingFn |-> "nil", writerLogFn |-> "nil", writerErrorFn |-> "nil",
     bodyLength |-> 0, rawDataLength |-> 0]

NilConfig == [ZeroConfig EXCEPT !.isNil = TRUE]

InitCors(configs) ==
    /\ corsConfig \in {cf \in configs : Validate(cf)}
    /\ gCors = newCors(corsConfig)
    /\ slices = newCorsSlices(corsConfig)
    /\ ctx = [t \in Threads |-> NewContext]
    /\ wc = IdleWildcard
    /\ cfg = NilConfig
    /\ handlers = <<>>
    /\ ipw = IdleIPWhite

\* one request against every policy
Init == InitCors(Configs)

Next ==
    \/ \E req \in Requests : Begin(1, req)
    \/ CheckOrigin(1)
    \/ Branch(1)
    \/ EchoOrigin(1)
    \/ Exit(1)
    \/ Downstream(1)

Spec == Init /\ [][Next]_vars

(***************************************************************************)
(* gcors: properties                                                       *)
(***************************************************************************)
\* the request carries an Origin that is not the request's own host
CrossOrigin(req) ==
    /\ req.origin # ""
    /\ req.origin # "http://" \o req.host
    /\ req.origin # "https://" \o req.host

ExactMatch(g, origin) == \E i \in 1..Len(g.allowOrigins) : g.allowOrigins[i] = origin

PatternMatches(w, origin) ==
    \/ (w[1] = "*" /\ HasSuffix(origin, w[2]))
    \/ (w[2] = "*" /\ HasPrefix(origin, w[1]))
    \/ (HasPrefix(origin, w[1]) /\ HasSuffix(origin, w[2]))

WildcardMatch(g, origin) ==
    \E i \in 1..Len(g.wildcardOrigins) : PatternMatches(g.wildcardOrigins[i], origin)

FuncAccepts(g, origin) ==
    ~g.allowOriginFunc.isNil /\ origin \in g.allowOriginFunc.accept

ContextFuncAccepts(g, req) ==
    /\ ~g.allowOriginWithContextFunc.isNil
    /\ <<req.method, req.origin>> \in g.allowOriginWithContextFunc.accept

\* the first-match rule of origin validation
Accepted(g, req) ==
    \/ g.allowAllOrigins
    \/ ExactMatch(g, req.origin)
    \/ WildcardMatch(g, req.origin)
    \/ FuncAccepts(g, req.origin)
    \/ ContextFuncAccepts(g, req)

Called(c, name) == \E i \in 1..Len(c.calls) : c.calls[i] = name

Logged(c, op) == {i \in 1..Len(c.log) : c.log[i][1] = op}

\* applyCors has returned for goroutine t
Returned(t) == ctx[t].pc \in {"returned", "done"}

\* C1: a cross-origin request whose origin fails validation is aborted with 403,
\* no downstream handler runs and no CORS header is written, for every method.
C1_RejectedIs403 ==
    \A t \in Threads :
        (Returned(t) /\ CrossOrigin(ctx[t].req) /\ ~Accepted(gCors, ctx[t].req))
            => /\ ctx[t].aborted
               /\ ctx[t].status = StatusForbidden
               /\ ~ctx[t].handlerRan
               /\ ctx[t].header = NoHeader
               /\ ctx[t].sent = NoneSent
               /\ Logged(ctx[t], "Header") = {}
               /\ Logged(ctx[t], "handlePreflight") = {}
               /\ Logged(ctx[t], "handleNormal") = {}

C1_Witness ==
    \E t \in Threads :
        /\ ctx[t].pc = "done"
        /\ CrossOrigin(ctx[t].req)
        /\ ~Accepted(gCors, ctx[t].req)
        /\ ctx[t].req.method = "OPTIONS"
        /\ ~gCors.allowOriginFunc.isNil
        /\ ~gCors.allowOriginWithContextFunc.isNil
        /\ gCors.preflightHeaders # NoHeader
        /\ ctx[t].status = StatusForbidden

\* C2: a request without Origin, or whose Origin is http(s)://Host, passes
\* applyCors untouched: no header, no abort, no status, no validation, no predicate.
C2_SameOriginUntouched ==
    \A t \in Threads :
        (ctx[t].pc # "idle" /\ ~CrossOrigin(ctx[t].req))
            => /\ Returned(t)
               /\ ctx[t].header = NoHeader
               /\ ~ctx[t].aborted
               /\ ctx[t].calls = <<>>
               /\ ~ctx[t].validated
               /\ ctx[t].log = <<>>
               /\ (ctx[t].pc = "returned" => ctx[t].status = 0 /\ ~ctx[t].written)
               /\ (ctx[t].pc = "done" => ctx[t].handlerRan /\ ctx[t].sent = NoneSent)

\* a same-origin https preflight under a policy that would reject the origin
C2_Witness ==
    \E t \in Threads :
        /\ ctx[t].pc = "done"
        /\ ctx[t].req.origin = "https://" \o ctx[t].req.host
        /\ ctx[t].req.method = "OPTIONS"
        /\ ~Accepted(gCors, ctx[t].req)
        /\ gCors.preflightHeaders # NoHeader
        /\ ctx[t].handlerRan

\* C3: a cross-origin request is accepted iff allow-all, exact, wildcard,
\* allowOriginFunc or allowOriginWithContextFunc accepts it; allowOriginFunc runs
\* only after allow-all, exact and wildcard failed, allowOriginWithContextFunc only
\* after allowOriginFunc failed as well.
C3_FirstMatchOrder ==
    \A t \in Threads :
        ctx[t].validated
            => /\ CrossOrigin(ctx[t].req)
               /\ ctx[t].valid = Accepted(gCors, ctx[t].req)
               /\ (Returned(t) => (ctx[t].status = StatusForbidden) = ~Accepted(gCors, ctx[t].req))
               /\ Called(ctx[t], "allowOriginFunc")
                    => /\ ~gCors.allowAllOrigins
                       /\ ~ExactMatch(gCors, ctx[t].req.origin)
                       /\ ~WildcardMatch(gCors, ctx[t].req.origin)
               /\ Called(ctx[t], "allowOriginWithContextFunc")
                    => /\ ~gCors.allowAllOrigins
                       /\ ~ExactMatch(gCors, ctx[t].req.origin)
                       /\ ~WildcardMatch(gCors, ctx[t].req.origin)
                       /\ ~FuncAccepts(gCors, ctx[t].req.origin)
               /\ Len(ctx[t].calls) <= 3

\* accepted by the context predicate alone, after the plain predicate said no
C3_Witness ==
    \E t \in Threads :
        /\ ctx[t].validated
        /\ ctx[t].valid
        /\ ctx[t].req.origin = "https://evil.test"
        /\ ctx[t].calls = <<"validateOrigin", "allowOriginFunc", "allowOriginWithContextFunc">>
        /\ Len(gCors.allowOrigins) > 0
        /\ Len(gCors.wildcardOrigins) > 0

AcceptedCrossOrigin(t) ==
    CrossOrigin(ctx[t].req) /\ Accepted(gCors, ctx[t].req)

\* C4: an accepted cross-origin OPTIONS request gets every key of the preflight
\* set, ends with optionsResponseStatusCode (204 when the configuration gave 0)
\* and never reaches the downstream handler.
C4_Preflight ==
    \A t \in Threads :
        (Returned(t) /\ AcceptedCrossOrigin(t) /\ ctx[t].req.method = "OPTIONS")
            => /\ \A k \in HeaderKeys :
                    gCors.preflightHeaders[k] # 0
                        => /\ ctx[t].header[k] = gCors.preflightHeaders[k]
                           /\ ctx[t].sent[k] = slices[gCors.preflightHeaders[k]]
                           /\ ctx[t].sent[k] # <<>>
               /\ ctx[t].aborted
               /\ ctx[t].status = gCors.optionsResponseStatusCode
               /\ ctx[t].status = IF corsConfig.OptionsResponseStatusCode = 0
                                  THEN StatusNoContent
                                  ELSE corsConfig.OptionsResponseStatusCode
               /\ ~ctx[t].handlerRan

C4_Witness ==
    \E t \in Threads :
        /\ ctx[t].pc = "done"
        /\ AcceptedCrossOrigin(t)
        /\ ctx[t].req.method = "OPTIONS"
        /\ corsConfig.OptionsResponseStatusCode = 0
        /\ ctx[t].status = StatusNoContent
        /\ ctx[t].sent[ACAM] = <<"GET,POST">>
        /\ ctx[t].sent[ACAH] = <<"Content-Type">>
        /\ ctx[t].sent[ACMA] = <<"3600">>

\* C5: an accepted cross-origin non-OPTIONS request gets every key of the normal
\* set and no key that is only in the preflight set, is not aborted and gets no
\* status from applyCors; the downstream handler runs and decides the status.
C5_Normal ==
    \A t \in Threads :
        (Returned(t) /\ AcceptedCrossOrigin(t) /\ ctx[t].req.method # "OPTIONS")
            => /\ \A k \in HeaderKeys :
                    /\ gCors.normalHeaders[k] # 0 => ctx[t].header[k] = gCors.normalHeaders[k]
                    /\ (gCors.normalHeaders[k] = 0 /\ gCors.preflightHeaders[k] # 0)
                            => ctx[t].header[k] = 0
               /\ ~ctx[t].aborted
               /\ Logged(ctx[t], "AbortWithStatus") = {}
               /\ Logged(ctx[t], "Status") = {}
               /\ (ctx[t].pc = "returned" => ctx[t].status = 0 /\ ~ctx[t].written)
               /\ (ctx[t].pc = "done"
                       => /\ ctx[t].handlerRan
                          /\ ctx[t].status \in HandlerStatuses
                          /\ \A k \in HeaderKeys :
                                gCors.normalHeaders[k] # 0
                                    => ctx[t].sent[k] = slices[gCors.normalHeaders[k]])

C5_Witness ==
    \E t \in Threads :
        /\ ctx[t].pc = "done"
        /\ AcceptedCrossOrigin(t)
        /\ ctx[t].req.method = "GET"
        /\ ctx[t].handlerRan
        /\ ctx[t].sent[ACEH] = <<"X-Total,X-Page">>
        /\ ctx[t].sent[ACAC] = <<"true">>
        /\ gCors.preflightHeaders[ACAM] # 0
        /\ ctx[t].sent[ACAM] = <<>>

\* C6: an accepted cross-origin request gets Access-Control-Allow-Origin set to
\* its own Origin, exactly once, iff allowAllOrigins is false; for a preflight the
\* header writes precede the terminating status, so the response sent carries the
\* echo. Under allowAllOrigins the echoed origin is never written.
C6_OriginEcho ==
    \A t \in Threads :
        (Returned(t) /\ AcceptedCrossOrigin(t))
            => LET c == ctx[t]
                   echoes == {i \in Logged(c, "Header") : c.log[i][2] = ACAO}
                   aborts == Logged(c, "AbortWithStatus")
                   copies == Logged(c, "handlePreflight") \cup Logged(c, "handleNormal")
               IN IF gCors.allowAllOrigins
                  THEN /\ echoes = {}
                       /\ Resolve(c.header, slices)[ACAO] # <<c.req.origin>>
                       /\ c.sent[ACAO] # <<c.req.origin>>
                  ELSE /\ Cardinality(echoes) = 1
                       /\ Resolve(c.header, slices)[ACAO] = <<c.req.origin>>
                       /\ c.req.method = "OPTIONS"
                            => /\ Cardinality(aborts) = 1
                               /\ \A e \in echoes \cup copies : \A a \in aborts : e < a
                               /\ c.sent[ACAO] = <<c.req.origin>>
                       /\ c.pc = "done" => c.sent[ACAO] = <<c.req.origin>>

C6_Witness ==
    \E t \in Threads :
        /\ ctx[t].pc = "done"
        /\ AcceptedCrossOrigin(t)
        /\ ~gCors.allowAllOrigins
        /\ ctx[t].req.method = "OPTIONS"
        /\ ctx[t].sent[ACAO] = <<"https://api.example.com">>
        /\ ctx[t].sent[ACAM] # <<>>
        /\ ctx[t].status = gCors.optionsResponseStatusCode

(***************************************************************************)
(* gcors: concurrent evaluations against one shared policy                 *)
(***************************************************************************)
ConcConfigs ==
    {cf \in Configs :
        /\ cf.AllowOrigins \in {<<"https://example.com">>, <<"*">>}
        /\ ~cf.AllowAllOrigins
        /\ cf.AllowOriginFunc = NilFunc
        /\ cf.AllowOriginWithContextFunc = NilFunc
        /\ cf.AllowCredentials
        /\ Len(cf.AllowMethods) > 0
        /\ cf.OptionsResponseStatusCode = 0}

ConcRequests ==
    [origin : {"", "https://example.com", "https://evil.test"},
     host : {"other.test"},
     method : Methods]

InitConc == InitCors(ConcConfigs)

NextConc ==
    \E t \in Threads :
        \/ \E req \in ConcRequests : Begin(t, req)
        \/ CheckOrigin(t)
        \/ Branch(t)
        \/ EchoOrigin(t)
        \/ Exit(t)
        \/ Downstream(t)

SpecConc == InitConc /\ [][NextConc]_vars

PolicyAddrs == 1..(2 * Len(KeySeq))

\* C9: under any interleaving of concurrent applyCors evaluations the policy is
\* what newCors built: no field of gCors and no value of its header sets changes.
C9_PolicyReadOnly ==
    /\ gCors = newCors(corsConfig)
    /\ \A a \in PolicyAddrs : slices[a] = newCorsSlices(corsConfig)[a]

\* two evaluations in flight: one has echoed the origin into a response map that
\* shares the policy's values, the other has just copied the preflight set
C9_Witness ==
    \E t, u \in Threads :
        /\ t # u
        /\ ctx[t].pc = "exit"
        /\ ctx[t].header[ACAC] = gCors.normalHeaders[ACAC]
        /\ ctx[t].header[ACAC] # 0
        /\ ctx[t].header[ACAO] = FreshAddr(t)
        /\ ctx[u].pc = "echo"
        /\ ctx[u].header[ACAM] = gCors.preflightHeaders[ACAM]
        /\ ctx[u].header[ACAM] # 0

(***************************************************************************)
(* gcors: validateWildcardOrigin on its own                                *)
(***************************************************************************)
WildcardPatterns ==
    {<<"https://", ".example.com">>,
     <<"*", ".example.com">>,
     <<"https://", "*">>,
     <<"https://a", "a.com">>,
     <<"http://localhost:", "">>}

WildcardInputs ==
    {"https://api.example.com", "https://example.com", "http://api.example.com",
     "https://a.com", "http://localhost:8080", "ftp://x.test", ""}

RECURSIVE SeqsUpTo(_, _)
SeqsUpTo(S, n) ==
    IF n = 0 THEN {<<>>}
    ELSE LET shorter == SeqsUpTo(S, n - 1)
         IN shorter \cup {Append(q, x) : q \in shorter, x \in S}

InitWildcard ==
    /\ wc \in [pc : {"call"},
               wildcardOrigins : SeqsUpTo(WildcardPatterns, MaxPatterns),
               origin : WildcardInputs,
               result : {FALSE}]
    /\ corsConfig = CHOOSE cf \in Configs : Validate(cf)
    /\ gCors = newCors(corsConfig)
    /\ slices = newCorsSlices(corsConfig)
    /\ ctx = [t \in Threads |-> NewContext]
    /\ cfg = NilConfig
    /\ handlers = <<>>
    /\ ipw = IdleIPWhite

ValidateWildcard ==
    /\ wc.pc = "call"
    /\ wc' = [wc EXCEPT !.pc = "done",
                        !.result = validateWildcardOrigin(wc.wildcardOrigins, wc.origin)]
    /\ UNCHANGED <<corsConfig, gCors, slices, ctx, cfg, handlers, ipw>>

SpecWildcard == InitWildcard /\ [][ValidateWildcard]_vars

\* C7: validateWildcardOrigin is true iff some stored (prefix, suffix) has prefix
\* "*" and the origin ends with suffix, or suffix "*" and the origin starts with
\* prefix, or the origin starts with prefix and ends with suffix; so
\* ("https://", ".example.com") takes https://api.example.com and not
\* https://example.com, and the empty list takes nothing.
C7_WildcardMatch ==
    wc.pc = "done"
        => /\ wc.result = \E i \in 1..Len(wc.wildcardOrigins) :
                              PatternMatches(wc.wildcardOrigins[i], wc.origin)
           /\ wc.wildcardOrigins = <<>> => ~wc.result
           /\ wc.wildcardOrigins = <<<<"https://", ".example.com">>>>
                => /\ wc.origin = "https://api.example.com" => wc.result
                   /\ wc.origin = "https://example.com" => ~wc.result

C7_Witness ==
    /\ wc.pc = "done"
    /\ wc.wildcardOrigins = <<<<"https://", ".example.com">>>>
    /\ wc.origin = "https://example.com"
    /\ ~wc.result

(***************************************************************************)
(* ip_white: net.ParseIP, net.ParseCIDR, IPNet.Contains, strings.TrimSpace *)
(* The inputs hold no ":" and no "%": IPv4 text and text that is no IP.    *)
(***************************************************************************)
NilIP == <<>>

IsDigit(ch) == \E i \in 1..10 : Digits[i] = ch

DigitValue(ch) == (CHOOSE i \in 1..10 : Digits[i] = ch) - 1

IsSpace(ch) == ch \in {" ", "\t", "\n", "\r"}

RECURSIVE TrimLeft(_)
TrimLeft(s) == IF Len(s) > 0 /\ IsSpace(Head(s)) THEN TrimLeft(Tail(s)) ELSE s

RECURSIVE TrimRight(_)
TrimRight(s) ==
    IF Len(s) > 0 /\ IsSpace(SubSeq(s, Len(s), Len(s)))
    THEN TrimRight(SubSeq(s, 1, Len(s) - 1))
    ELSE s

TrimSpace(s) == TrimRight(TrimLeft(s))

\* the IPv4 field scanner: i the position, fields the octets read so far, val and
\* digLen the octet being read; the result is the four octets, or NilIP on error
RECURSIVE parseIPv4Fields(_, _, _, _, _)
parseIPv4Fields(s, i, fields, val, digLen) ==
    IF i > Len(s)
    THEN IF Len(fields) < 3 THEN NilIP ELSE Append(fields, val)
    ELSE LET ch == SubSeq(s, i, i)
         IN IF IsDigit(ch)
            THEN IF digLen = 1 /\ val = 0 THEN NilIP
                 ELSE IF val * 10 + DigitValue(ch) > 255 THEN NilIP
                 ELSE parseIPv4Fields(s, i + 1, fields, val * 10 + DigitValue(ch), digLen + 1)
            ELSE IF ch = "."
            THEN IF i = 1 \/ i = Len(s) \/ SubSeq(s, i - 1, i - 1) = "." THEN NilIP
                 ELSE IF Len(fields) = 3 THEN NilIP
                 ELSE parseIPv4Fields(s, i + 1, Append(fields, val), 0, 0)
            ELSE NilIP

\* net.ParseIP: the four octets, or NilIP
ParseIP(s) == IF Contains(s, ".") THEN parseIPv4Fields(s, 1, <<>>, 0, 0) ELSE NilIP

\* dtoi: the decimal number at the start of s, [n, i (characters used), ok]
RECURSIVE dtoiFrom(_, _, _)
dtoiFrom(s, i, n) ==
    IF i <= Len(s) /\ IsDigit(SubSeq(s, i, i))
    THEN IF n * 10 + DigitValue(SubSeq(s, i, i)) >= 16777215
         THEN [n |-> 16777215, i |-> i - 1, ok |-> FALSE]
         ELSE dtoiFrom(s, i + 1, n * 10 + DigitValue(SubSeq(s, i, i)))
    ELSE [n |-> n, i |-> i - 1, ok |-> i > 1]

dtoi(s) == dtoiFrom(s, 1, 0)

Min(a, b) == IF a < b THEN a ELSE b
Max(a, b) == IF a > b THEN a ELSE b

RECURSIVE Pow2(_)
Pow2(n) == IF n = 0 THEN 1 ELSE 2 * Pow2(n - 1)

\* IP.Mask with CIDRMask(n, 32): octet j keeps its leading n - 8(j-1) bits
MaskIP(ip, n) ==
    [j \in 1..4 |->
        LET bits == Max(0, Min(8, n - 8 * (j - 1)))
        IN (ip[j] \div Pow2(8 - bits)) * Pow2(8 - bits)]

NoNet == [ok |-> FALSE, IP |-> NilIP, ones |-> 0]

\* net.ParseCIDR: the network (masked address and prefix length), or an error
ParseCIDR(s) ==
    LET i == IndexByte(s, "/")
    IN IF i = 0 THEN NoNet
       ELSE LET addr == SubSeq(s, 1, i - 1)
                mask == SubSeq(s, i + 1, Len(s))
                ip == ParseIP(addr)
                d == dtoi(mask)
            IN IF ip = NilIP \/ ~d.ok \/ d.i # Len(mask) \/ d.n < 0 \/ d.n > 32
               THEN NoNet
               ELSE [ok |-> TRUE, IP |-> MaskIP(ip, d.n), ones |-> d.n]

\* IPNet.Contains
NetContains(ipNet, ip) == MaskIP(ip, ipNet.ones) = ipNet.IP

(***************************************************************************)
(* ip_white: isIPWhite and the middleware                                  *)
(***************************************************************************)
\* a malformed CIDR entry ends the scan
RECURSIVE isIPWhite_stopAtMalformed(_, _)
isIPWhite_stopAtMalformed(ip, whitelist) ==
    LET ipAddr == ParseIP(ip)
    IN IF ipAddr = NilIP THEN FALSE
       ELSE IF Len(whitelist) = 0 THEN FALSE
       ELSE LET allowedIP == Head(whitelist)
            IN IF Contains(allowedIP, "/")
               THEN LET ipNet == ParseCIDR(allowedIP)
                    IN IF ~ipNet.ok THEN FALSE
                       ELSE IF NetContains(ipNet, ipAddr) THEN TRUE
                       ELSE isIPWhite_stopAtMalformed(ip, Tail(whitelist))
               ELSE IF TrimSpace(allowedIP) = ip THEN TRUE
               ELSE isIPWhite_stopAtMalformed(ip, Tail(whitelist))

RECURSIVE isIPWhite(_, _)
isIPWhite(ip, whitelist) ==
    LET ipAddr == ParseIP(ip)
    IN IF ipAddr = NilIP THEN FALSE
       ELSE IF Len(whitelist) = 0 THEN FALSE
       ELSE LET allowedIP == Head(whitelist)
            IN IF Contains(allowedIP, "/")
               THEN LET ipNet == ParseCIDR(allowedIP)
                    IN IF ~ipNet.ok THEN isIPWhite(ip, Tail(whitelist))
                       ELSE IF NetContains(ipNet, ipAddr) THEN TRUE
                       ELSE isIPWhite(ip, Tail(whitelist))
               ELSE IF TrimSpace(allowedIP) = ip THEN TRUE
               ELSE isIPWhite(ip, Tail(whitelist))

ClientIPs ==
    {"10.0.0.1", "10.0.1.1", "10.128.0.9", "192.168.1.5", "256.1.1.1", "10.0.0.01",
     "10.0.0", "abc", ""}

WhiteEntries ==
    {"10.0.0.1", " 10.0.0.1\t", "192.168.1.5", "abc", "",
     "10.0.0.0/24", "10.0.0.0/9", "0.0.0.0/0", "192.168.1.5/32",
     "10.0.0.0/33", "10.0.0.0/", "bad/8", " 10.0.0.0/8", "10.0.0.0/8/1"}

\* WithIpWhite(ips)
WithIpWhite(ips) == [ips |-> ips]

\* New(opts...): cfg := &option{}; every option is applied in order
RECURSIVE applyOptions(_, _)
applyOptions(o, opts) ==
    IF Len(opts) = 0 THEN o
    ELSE applyOptions([o EXCEPT !.WhiteList = Head(opts).ips], Tail(opts))

IPWhiteNew(opts) ==
    /\ ipw.pc = "new"
    /\ ipw' = [ipw EXCEPT !.pc = "ready",
                          !.WhiteList = applyOptions([WhiteList |-> <<>>], opts).WhiteList]
    /\ UNCHANGED <<corsConfig, gCors, slices, ctx, wc, cfg, handlers>>

\* the handler closure on a request whose c.ClientIP() is ip
IPWhiteHandle(ip) ==
    /\ ipw.pc = "ready"
    /\ LET white == isIPWhite(ip, ipw.WhiteList)
       IN ipw' = [ipw EXCEPT !.pc = "returned",
                             !.ip = ip,
                             !.white = white,
                             !.aborted = ~white,
                             !.status = IF white THEN 0 ELSE StatusForbidden]
    /\ UNCHANGED <<corsConfig, gCors, slices, ctx, wc, cfg, handlers>>

\* gin's handler chain after the middleware
IPWhiteDownstream ==
    /\ ipw.pc = "returned"
    /\ \E code \in HandlerStatuses :
        ipw' = [ipw EXCEPT !.pc = "done",
                           !.handlerRan = ~ipw.aborted,
                           !.status = IF ipw.aborted THEN @ ELSE code]
    /\ UNCHANGED <<corsConfig, gCors, slices, ctx, wc, cfg, handlers>>

InitIPWhite ==
    /\ ipw = [IdleIPWhite EXCEPT !.pc = "new"]
    /\ corsConfig = CHOOSE cf \in Configs : Validate(cf)
    /\ gCors = newCors(corsConfig)
    /\ slices = newCorsSlices(corsConfig)
    /\ ctx = [t \in Threads |-> NewContext]
    /\ wc = IdleWildcard
    /\ cfg = NilConfig
    /\ handlers = <<>>

NextIPWhite ==
    \/ \E opts \in {<<>>} \cup {<<WithIpWhite(l)>> : l \in SeqsUpTo(WhiteEntries, MaxList)} :
            IPWhiteNew(opts)
    \/ \E ip \in ClientIPs : IPWhiteHandle(ip)
    \/ IPWhiteDownstream

SpecIPWhite == InitIPWhite /\ [][NextIPWhite]_vars

\* an allowlist entry lets the address through
EntryAllows(entry, ip) ==
    IF Contains(entry, "/")
    THEN ParseCIDR(entry).ok /\ NetContains(ParseCIDR(entry), ParseIP(ip))
    ELSE TrimSpace(entry) = ip

\* C10: the request continues iff the client IP parses and some entry with "/" is
\* a CIDR containing it or some entry without "/" equals it once trimmed;
\* otherwise 403 and no downstream handler. Malformed CIDR entries are skipped.
C10_IPWhite ==
    ipw.pc \in {"returned", "done"}
        => LET allowed == /\ ParseIP(ipw.ip) # NilIP
                          /\ \E i \in 1..Len(ipw.WhiteList) : EntryAllows(ipw.WhiteList[i], ipw.ip)
           IN /\ ipw.white = allowed
              /\ ipw.aborted = ~allowed
              /\ ~allowed => ipw.status = StatusForbidden
              /\ ipw.pc = "done" => ipw.handlerRan = allowed

\* a match found behind a malformed CIDR entry
C10_Witness ==
    /\ ipw.pc = "done"
    /\ ipw.WhiteList = <<"10.0.0.0/33", "10.0.0.0/9">>
    /\ ipw.ip = "10.0.1.1"
    /\ ipw.handlerRan
    /\ ~ipw.aborted

(***************************************************************************)
(* logger: the package-level cfg, the options and the two constructors     *)
(***************************************************************************)
\* math.MaxInt (of a 32-bit int)
MaxInt == 2147483647

Opt(name, s, n, l) == [name |-> name, s |-> s, n |-> n, l |-> l]

LoggerOptions ==
    {Opt("WithLogger", "L1", 0, <<>>),
     Opt("WithLogger", "L2", 0, <<>>),
     Opt("WithFormatter", "F1", 0, <<>>),
     Opt("WithWriterLogFn", "W1", 0, <<>>),
     Opt("WithBodyLength", "", 16, <<>>),
     Opt("WithRawDataLength", "", 16, <<>>),
     Opt("WithExcludeRegexMethod", "", 0, <<"OPTIONS">>)}

\* opt(cfg) for the options of options.go
applyOption(opt, c) ==
    CASE opt.name = "WithLogger" -> [c EXCEPT !.logger = opt.s \o ".WithField(Gin-Logger)"]
      [] opt.name = "WithExcludeRegexMethod" -> [c EXCEPT !.excludeRegexMethod = opt.l]
      [] opt.name = "WithExcludeRegexStatus" -> [c EXCEPT !.excludeRegexStatus = opt.l]
      [] opt.name = "WithExcludeRegexEndpoint" -> [c EXCEPT !.excludeRegexEndpoint = opt.l]
      [] opt.name = "WithEndpointLabelMappingFn" -> [c EXCEPT !.endpointLabelMappingFn = opt.s]
      [] opt.name = "WithFormatter" -> [c EXCEPT !.formatter = opt.s]
      [] opt.name = "WithWriterLogFn" -> [c EXCEPT !.writerLogFn = opt.s]
      [] opt.name = "WithWriterErrorFn" -> [c EXCEPT !.writerErrorFn = opt.s]
      [] opt.name = "WithBodyLength" -> [c EXCEPT !.bodyLength = opt.n]
      [] opt.name = "WithRawDataLength" -> [c EXCEPT !.rawDataLength = opt.n]

RECURSIVE applyLoggerOptions(_, _)
applyLoggerOptions(c, opts) ==
    IF Len(opts) = 0 THEN c
    ELSE applyLoggerOptions(applyOption(Head(opts), c), Tail(opts))

withDefaultFormatter(c) ==
    IF c.formatter = "nil" THEN [c EXCEPT !.formatter = "defaultLogFormatter"] ELSE c

\* the config literal of New, and of NewErrorLogger
NewDefaults ==
    [ZeroConfig EXCEPT !.rawDataLength = MaxInt,
                       !.bodyLength = MaxInt,
                       !.endpointLabelMappingFn = "URL.Path"]

NewErrorLoggerDefaults == [ZeroConfig EXCEPT !.endpointLabelMappingFn = "URL.Path"]

NewHandler(kind, opts) ==
    [kind |-> kind, opts |-> opts, served |-> FALSE, observed |-> NilConfig]

\* New(opts...)
LoggerNew(opts) ==
    /\ Len(handlers) < MaxCalls
    /\ LET c0 == IF cfg.isNil THEN NewDefaults ELSE cfg
       IN cfg' = withDefaultFormatter(applyLoggerOptions(c0, opts))
    /\ handlers' = Append(handlers, NewHandler("New", opts))
    /\ UNCHANGED <<corsConfig, gCors, slices, ctx, wc, ipw>>

\* NewErrorLogger(opts...)
NewErrorLogger(opts) ==
    /\ Len(handlers) < MaxCalls
    /\ LET c0 == IF cfg.isNil THEN NewErrorLoggerDefaults ELSE cfg
       IN cfg' = withDefaultFormatter(applyLoggerOptions(c0, opts))
    /\ handlers' = Append(handlers, NewHandler("NewErrorLogger", opts))
    /\ UNCHANGED <<corsConfig, gCors, slices, ctx, wc, ipw>>

\* the i-th handler serves a request: its closure reads the package-level cfg
LoggerHandle(i) ==
    /\ i \in 1..Len(handlers)
    /\ ~handlers[i].served
    /\ handlers' = [handlers EXCEPT ![i].served = TRUE, ![i].observed = cfg]
    /\ UNCHANGED <<corsConfig, gCors, slices, ctx, wc, cfg, ipw>>

InitLogger ==
    /\ cfg = NilConfig
    /\ handlers = <<>>
    /\ corsConfig = CHOOSE cf \in Configs : Validate(cf)
    /\ gCors = newCors(corsConfig)
    /\ slices = newCorsSlices(corsConfig)
    /\ ctx = [t \in Threads |-> NewContext]
    /\ wc = IdleWildcard
    /\ ipw = IdleIPWhite

NextLogger ==
    \/ \E opts \in SeqsUpTo(LoggerOptions, MaxOpts) : LoggerNew(opts)
    \/ \E opts \in SeqsUpTo(LoggerOptions, MaxOpts) : NewErrorLogger(opts)
    \/ \E i \in 1..MaxCalls : LoggerHandle(i)

SpecLogger == InitLogger /\ [][NextLogger]_vars

\* the configuration of an instance built from its own options alone
OwnConfig(kind, opts) ==
    withDefaultFormatter(applyLoggerOptions(
        IF kind = "New" THEN NewDefaults ELSE NewErrorLoggerDefaults, opts))

\* C8: every logging handler observes the defaults of its constructor with its
\* own options applied, whatever other constructor calls came before or after.
C8_IndependentInstances ==
    \A i \in 1..Len(handlers) :
        handlers[i].served => handlers[i].observed = OwnConfig(handlers[i].kind, handlers[i].opts)

=============================================================================
